---------------------------- MODULE Spec2Model ----------------------------
(***************************************************************************)
(* Token codec and generate/validate protocol of src/crypt/token.rs, and   *)
(* the once-only configuration of src/config.rs.                           *)
(*                                                                         *)
(* Strings are sequences of byte values (all strings used are ASCII, so a  *)
(* byte is a character).  A base64url text is a sequence of character      *)
(* codes: 0..63 is the position of the character in the URL-safe alphabet  *)
(* (16 = 'Q', 48 = 'w', 63 = '_'), Dot is '.', any other code is a         *)
(* character outside the alphabet.                                         *)
(*                                                                         *)
(* Three specifications share the variables:                               *)
(*   CodecSpec  Display / FromStr of Token                                 *)
(*   Spec       _generate_token / _validate_token_sign_and_exp with a clock*)
(*   ConcSpec   threads calling generate_web_token / validate_web_token    *)
(***************************************************************************)
EXTENDS Integers, Sequences, FiniteSets, TLC

VARIABLES
    c_pc, c_tok, c_text, c_res,           \* codec: position, Token shown, text, parse result
    now,                                  \* the UTC clock (seconds within the modelled minute)
    token, gen, vin, res,                 \* protocol: current Token, how it was generated, validate's inputs and result
    instance, initCount, waiters,         \* config(): the OnceLock, stores made, threads that found it being initialised
    t_pc, t_call, t_cfg, t_clk, t_res,    \* per thread: position, call, &Config held, clock reading, result
    issued                                \* the last Token a generate_web_token call returned

vars == <<c_pc, c_tok, c_text, c_res, now, token, gen, vin, res,
          instance, initCount, waiters, t_pc, t_call, t_cfg, t_clk, t_res, issued>>

codecVars == <<c_pc, c_tok, c_text, c_res>>
protoVars == <<token, gen, vin, res>>
clockVars == <<now>>
concVars  == <<instance, initCount, waiters, t_pc, t_call, t_cfg, t_clk, t_res, issued>>

----------------------------------------------------------------------------
(* Bounds *)

MaxTextLen == 5       \* longest token text given to FromStr
MaxStrLen == 3        \* longest ident / exp / signature of a Token given to Display
MaxTime == 6          \* last clock reading
MaxDuration == 2      \* durations range over -MaxDuration..MaxDuration
NumThreads == 2       \* concurrent callers

----------------------------------------------------------------------------
(* Results: Rust's Result<T, Error> *)

Ok(v) == [ok |-> TRUE, val |-> v]
Err(e) == [ok |-> FALSE, err |-> e]
NoResult == [ok |-> FALSE, err |-> "None"]

Dot == 64

\* all sequences over S of length at most n
RECURSIVE SeqsUpTo(_, _)
SeqsUpTo(S, n) ==
    IF n = 0 THEN { <<>> }
    ELSE LET shorter == SeqsUpTo(S, n - 1)
         IN  shorter \cup { Append(s, x) : s \in shorter, x \in S }

----------------------------------------------------------------------------
(* utils: URL-safe unpadded base64 *)

RECURSIVE b64u_encode(_)
b64u_encode(bs) ==
    IF Len(bs) = 0 THEN <<>>
    ELSE IF Len(bs) = 1 THEN
        << bs[1] \div 4, (bs[1] % 4) * 16 >>
    ELSE IF Len(bs) = 2 THEN
        << bs[1] \div 4, (bs[1] % 4) * 16 + (bs[2] \div 16), (bs[2] % 16) * 4 >>
    ELSE
        << bs[1] \div 4, (bs[1] % 4) * 16 + (bs[2] \div 16),
           (bs[2] % 16) * 4 + (bs[3] \div 64), bs[3] % 64 >>
        \o b64u_encode(SubSeq(bs, 4, Len(bs)))

\* the bytes of a text whose characters are all in the alphabet
RECURSIVE DecodeBytes(_)
DecodeBytes(cs) ==
    IF Len(cs) < 2 THEN <<>>
    ELSE IF Len(cs) = 2 THEN
        << cs[1] * 4 + (cs[2] \div 16) >>
    ELSE IF Len(cs) = 3 THEN
        << cs[1] * 4 + (cs[2] \div 16), (cs[2] % 16) * 16 + (cs[3] \div 4) >>
    ELSE
        << cs[1] * 4 + (cs[2] \div 16), (cs[2] % 16) * 16 + (cs[3] \div 4),
           (cs[3] % 4) * 64 + cs[4] >>
        \o DecodeBytes(SubSeq(cs, 5, Len(cs)))

\* the text is canonical unpadded base64url: alphabet, length, no stray trailing bits
DecodableText(cs) ==
    /\ \A i \in 1..Len(cs) : cs[i] \in 0..63
    /\ Len(cs) % 4 # 1
    /\ Len(cs) % 4 = 2 => cs[Len(cs)] % 16 = 0
    /\ Len(cs) % 4 = 3 => cs[Len(cs)] % 4 = 0

\* String::from_utf8
RECURSIVE IsUtf8(_)
IsUtf8(bs) ==
    LET n == Len(bs)
        cont(i) == i <= n /\ bs[i] \in 128..191
    IN  IF n = 0 THEN TRUE
        ELSE IF bs[1] < 128 THEN IsUtf8(Tail(bs))
        ELSE IF bs[1] \in 194..223 THEN
            cont(2) /\ IsUtf8(SubSeq(bs, 3, n))
        ELSE IF bs[1] \in 224..239 THEN
            /\ cont(2) /\ cont(3)
            /\ bs[1] = 224 => bs[2] >= 160
            /\ bs[1] = 237 => bs[2] <= 159
            /\ IsUtf8(SubSeq(bs, 4, n))
        ELSE IF bs[1] \in 240..244 THEN
            /\ cont(2) /\ cont(3) /\ cont(4)
            /\ bs[1] = 240 => bs[2] >= 144
            /\ bs[1] = 244 => bs[2] <= 143
            /\ IsUtf8(SubSeq(bs, 5, n))
        ELSE FALSE

b64u_decode(cs) ==
    IF DecodableText(cs) /\ IsUtf8(DecodeBytes(cs))
    THEN Ok(DecodeBytes(cs))
    ELSE Err("FailBase64uDecode")

----------------------------------------------------------------------------
(* Token: Display and FromStr *)

Token(ident, exp, sign_b64u) ==
    [ident |-> ident, exp |-> exp, sign_b64u |-> sign_b64u]

NoToken == Token(<<>>, <<>>, <<Dot, Dot>>)

\* str::split('.'): the pieces between the dots; the empty text is one empty piece
RECURSIVE Split(_)
Split(text) ==
    IF \A i \in 1..Len(text) : text[i] # Dot THEN << text >>
    ELSE LET k == CHOOSE i \in 1..Len(text) :
                      /\ text[i] = Dot
                      /\ \A j \in 1..(i - 1) : text[j] # Dot
         IN  << SubSeq(text, 1, k - 1) >> \o Split(SubSeq(text, k + 1, Len(text)))

\* at least three pieces, the first three taken
SplitsAtLeastThree(splits) == Len(splits) >= 3

\* three pieces, none of them empty
SplitsThreeNonEmpty(splits) ==
    Len(splits) = 3 /\ \A i \in 1..3 : splits[i] # <<>>

\* the slice pattern [ident_b64u, exp_b64u, sign_b64u] = splits[..]
SplitsMatch(splits) == Len(splits) = 3

Token_from_str(token_str) ==
    LET splits == Split(token_str)
    IN  IF ~SplitsMatch(splits) THEN Err("TokenInvalidFormat")
        ELSE LET ident == b64u_decode(splits[1])
                 exp == b64u_decode(splits[2])
             IN  IF ~ident.ok THEN Err("TokenCannotDecodeIdent")
                 ELSE IF ~exp.ok THEN Err("TokenCannotDecodeExp")
                 ELSE Ok(Token(ident.val, exp.val, splits[3]))

\* the first two fields written in the wrong order
Token_fmt_swapped(t) ==
    b64u_encode(t.exp) \o <<Dot>> \o b64u_encode(t.ident) \o <<Dot>> \o t.sign_b64u

Token_fmt(t) ==
    b64u_encode(t.ident) \o <<Dot>> \o b64u_encode(t.exp) \o <<Dot>> \o t.sign_b64u

----------------------------------------------------------------------------
(* Codec inputs *)

\* 'Q', 'w', '_', '.', and a character outside the alphabet
TextChars == {16, 48, 63, Dot, 65}
Texts == SeqsUpTo(TextChars, MaxTextLen)

\* 'A', and the two bytes of a two-byte character
StrBytes == {65, 195, 169}
\* signatures as stored in a Token: any text, also one holding the separator
SignChars == {16, Dot}
CodecTokens ==
    LET Strings == { bs \in SeqsUpTo(StrBytes, MaxStrLen) : IsUtf8(bs) }
    IN  { Token(i, e, s) : i \in Strings, e \in Strings,
                           s \in SeqsUpTo(SignChars, MaxStrLen) }

CodecInit ==
    /\ c_pc = "idle"
    /\ c_tok = NoToken
    /\ c_text = <<>>
    /\ c_res = NoResult

\* to_string() of a Token
Display ==
    /\ c_pc = "idle"
    /\ \E t \in CodecTokens :
        /\ c_tok' = t
        /\ c_text' = Token_fmt(t)
    /\ c_pc' = "shown"
    /\ c_res' = NoResult
    /\ UNCHANGED <<clockVars, protoVars, concVars>>

\* a text arriving from a caller
Receive ==
    /\ c_pc = "idle"
    /\ \E text \in Texts : c_text' = text
    /\ c_pc' = "received"
    /\ c_tok' = NoToken
    /\ c_res' = NoResult
    /\ UNCHANGED <<clockVars, protoVars, concVars>>

\* token_str.parse::<Token>()
FromStr ==
    /\ c_pc \in {"shown", "received"}
    /\ c_res' = Token_from_str(c_text)
    /\ c_pc' = IF c_pc = "shown" THEN "reparsed" ELSE "parsed"
    /\ UNCHANGED <<c_tok, c_text>>
    /\ UNCHANGED <<clockVars, protoVars, concVars>>

\* the Token and the text go out of scope
CodecDrop ==
    /\ c_pc \in {"reparsed", "parsed"}
    /\ c_pc' = "idle"
    /\ c_tok' = NoToken
    /\ c_text' = <<>>
    /\ c_res' = NoResult
    /\ UNCHANGED <<clockVars, protoVars, concVars>>


----------------------------------------------------------------------------
(* utils: time.  A timestamp is the seconds field of an RFC 3339 text: two *)
(* digits and the UTC marker 'Z'; the field runs from 00 to 59.            *)

format_time(t) == << 48 + (t \div 10), 48 + (t % 10), 90 >>

parse_utc(moment) ==
    IF /\ Len(moment) = 3
       /\ moment[1] \in 48..53
       /\ moment[2] \in 48..57
       /\ moment[3] = 90
    THEN Ok((moment[1] - 48) * 10 + (moment[2] - 48))
    ELSE Err("DateFailParse")

now_utc_plus_sec_str(sec, clock) == format_time(clock + sec)

----------------------------------------------------------------------------
(* crypt: the keyed signature.  Deterministic, and different for different *)
(* (key, content, salt): the digest is the length-prefixed concatenation.  *)

encrypt_into_b64u(key, enc_content) ==
    Ok(b64u_encode(<<Len(key)>> \o key
                   \o <<Len(enc_content.salt)>> \o enc_content.salt
                   \o enc_content.content))

----------------------------------------------------------------------------
(* Token generation and validation *)

token_sign_ignoring_salt(ident, exp, salt, key) ==
    encrypt_into_b64u(key,
        [content |-> b64u_encode(ident) \o <<Dot>> \o b64u_encode(exp),
         salt |-> <<>>])

_token_sign_into_b64u(ident, exp, salt, key) ==
    encrypt_into_b64u(key,
        [content |-> b64u_encode(ident) \o <<Dot>> \o b64u_encode(exp),
         salt |-> salt])

\* clock is the reading now_utc() gives inside the call
generate_token_clamped(ident, duration_sec, salt, key, clock) ==
    LET d == IF duration_sec < 0 THEN 0 ELSE duration_sec
        exp == now_utc_plus_sec_str(d, clock)
        sign_b64u == _token_sign_into_b64u(ident, exp, salt, key)
    IN  IF ~sign_b64u.ok THEN sign_b64u
        ELSE Ok(Token(ident, exp, sign_b64u.val))

_generate_token(ident, duration_sec, salt, key, clock) ==
    LET exp == now_utc_plus_sec_str(duration_sec, clock)
        sign_b64u == _token_sign_into_b64u(ident, exp, salt, key)
    IN  IF ~sign_b64u.ok THEN sign_b64u
        ELSE Ok(Token(ident, exp, sign_b64u.val))

\* expiration evaluated before the signature
validate_exp_first(origin_token, salt, key, clock) ==
    LET new_sign_b64u ==
            _token_sign_into_b64u(origin_token.ident, origin_token.exp, salt, key)
        origin_exp == parse_utc(origin_token.exp)
    IN  IF ~new_sign_b64u.ok THEN new_sign_b64u
        ELSE IF ~origin_exp.ok THEN Err("TokenExpNotIso")
        ELSE IF origin_exp.val < clock THEN Err("TokenExpired")
        ELSE IF new_sign_b64u.val # origin_token.sign_b64u
             THEN Err("TokenSignatureNotMatching")
        ELSE Ok("unit")

\* expired as soon as the expiration is reached
validate_exp_inclusive(origin_token, salt, key, clock) ==
    LET new_sign_b64u ==
            _token_sign_into_b64u(origin_token.ident, origin_token.exp, salt, key)
        origin_exp == parse_utc(origin_token.exp)
    IN  IF ~new_sign_b64u.ok THEN new_sign_b64u
        ELSE IF new_sign_b64u.val # origin_token.sign_b64u
             THEN Err("TokenSignatureNotMatching")
        ELSE IF ~origin_exp.ok THEN Err("TokenExpNotIso")
        ELSE IF origin_exp.val <= clock THEN Err("TokenExpired")
        ELSE Ok("unit")

\* the expiration comparison reversed
validate_exp_reversed(origin_token, salt, key, clock) ==
    LET new_sign_b64u ==
            _token_sign_into_b64u(origin_token.ident, origin_token.exp, salt, key)
        origin_exp == parse_utc(origin_token.exp)
    IN  IF ~new_sign_b64u.ok THEN new_sign_b64u
        ELSE IF new_sign_b64u.val # origin_token.sign_b64u
             THEN Err("TokenSignatureNotMatching")
        ELSE IF ~origin_exp.ok THEN Err("TokenExpNotIso")
        ELSE IF origin_exp.val > clock THEN Err("TokenExpired")
        ELSE Ok("unit")

\* an unparseable expiration reported as expired
validate_bad_exp_as_expired(origin_token, salt, key, clock) ==
    LET new_sign_b64u ==
            _token_sign_into_b64u(origin_token.ident, origin_token.exp, salt, key)
        origin_exp == parse_utc(origin_token.exp)
    IN  IF ~new_sign_b64u.ok THEN new_sign_b64u
        ELSE IF new_sign_b64u.val # origin_token.sign_b64u
             THEN Err("TokenSignatureNotMatching")
        ELSE IF ~origin_exp.ok THEN Err("TokenExpired")
        ELSE IF origin_exp.val < clock THEN Err("TokenExpired")
        ELSE Ok("unit")

\* clock is the reading now_utc() gives inside the call
_validate_token_sign_and_exp(origin_token, salt, key, clock) ==
    LET new_sign_b64u ==
            _token_sign_into_b64u(origin_token.ident, origin_token.exp, salt, key)
        origin_exp == parse_utc(origin_token.exp)
    IN  IF ~new_sign_b64u.ok THEN new_sign_b64u
        ELSE IF new_sign_b64u.val # origin_token.sign_b64u
             THEN Err("TokenSignatureNotMatching")
        ELSE IF ~origin_exp.ok THEN Err("TokenExpNotIso")
        ELSE IF origin_exp.val < clock THEN Err("TokenExpired")
        ELSE Ok("unit")

----------------------------------------------------------------------------
(* Protocol inputs and steps *)

\* "A", "Az"
Idents == { <<65>>, <<65, 122>> }
\* "a", "b"
Salts == { <<97>>, <<98>> }
Keys == { <<1>>, <<2>> }
Durations == (-MaxDuration)..MaxDuration

\* expiration texts an arbitrary Token may carry: timestamps, a seconds
\* field out of range ("80Z"), a timestamp without the UTC marker ("01")
ExpTexts ==
    { format_time(t) : t \in 0..(MaxTime + MaxDuration) }
        \cup { <<56, 48, 90>>, <<48, 49>> }

NoGen == [made |-> FALSE, ok |-> FALSE, t0 |-> 0, d |-> 0, salt |-> <<>>, key |-> <<>>]
NoVin == [done |-> FALSE, salt |-> <<>>, key |-> <<>>, t1 |-> 0]

\* a signature with its first character replaced
Flip(sign) ==
    IF Len(sign) = 0 THEN <<16>> ELSE << (sign[1] + 1) % 64 >> \o Tail(sign)

ProtoInit ==
    /\ now = MaxDuration
    /\ token = NoToken
    /\ gen = NoGen
    /\ vin = NoVin
    /\ res = NoResult

Tick ==
    /\ now < MaxTime
    /\ now' = now + 1
    /\ UNCHANGED <<codecVars, protoVars, concVars>>

Generate ==
    /\ token = NoToken
    /\ UNCHANGED <<clockVars, codecVars, concVars>>
    /\ \E ident \in Idents, d \in Durations, salt \in Salts, key \in Keys :
        LET r == _generate_token(ident, d, salt, key, now)
        IN  /\ token' = IF r.ok THEN r.val ELSE NoToken
            /\ gen' = [made |-> TRUE, ok |-> r.ok, t0 |-> now, d |-> d,
                       salt |-> salt, key |-> key]
            /\ vin' = NoVin
            /\ res' = NoResult

\* a Token built by the caller: any fields, signed for some salt and key or not
Forge ==
    /\ token = NoToken
    /\ UNCHANGED <<clockVars, codecVars, concVars>>
    /\ \E ident \in Idents, exp \in ExpTexts, salt \in Salts, key \in Keys,
       signed \in BOOLEAN :
        /\ token' = Token(ident, exp,
                          IF signed
                          THEN _token_sign_into_b64u(ident, exp, salt, key).val
                          ELSE <<16>>)
        /\ gen' = NoGen
        /\ vin' = NoVin
        /\ res' = NoResult

\* the signature of a generated Token altered on its way back
Tamper ==
    /\ token # NoToken
    /\ gen.made
    /\ token' = [token EXCEPT !.sign_b64u = Flip(@)]
    /\ gen' = NoGen
    /\ vin' = NoVin
    /\ res' = NoResult
    /\ UNCHANGED <<clockVars, codecVars, concVars>>

Validate ==
    /\ token # NoToken
    /\ \E salt \in Salts, key \in Keys :
        /\ res' = _validate_token_sign_and_exp(token, salt, key, now)
        /\ vin' = [done |-> TRUE, salt |-> salt, key |-> key, t1 |-> now]
    /\ UNCHANGED <<token, gen>>
    /\ UNCHANGED <<clockVars, codecVars, concVars>>

\* the Token is discarded after the check
Drop ==
    /\ vin.done
    /\ token' = NoToken
    /\ gen' = NoGen
    /\ vin' = NoVin
    /\ res' = NoResult
    /\ UNCHANGED <<clockVars, codecVars, concVars>>


----------------------------------------------------------------------------
(* config(): a OnceLock<Config> filled from the environment on first use,  *)
(* and the public generate_web_token / validate_web_token that read it.    *)

Threads == 1..NumThreads

Config(token_key, token_duration_sec) ==
    [token_key |-> token_key, token_duration_sec |-> token_duration_sec]

\* what Config::load_from_env can return, the environment being an input
EnvConfigs == { Config(<<1>>, 0), Config(<<2>>, 1) }

Uninit == [state |-> "uninit", value |-> Config(<<>>, 0)]
NoCall == [op |-> "none", user |-> <<>>, salt |-> <<>>, origin_token |-> NoToken]

\* a caller of get_or_init runs the closure only when it finds the cell empty
\* and no other caller running it
StartInitUnsynchronised == instance.state # "complete"
CanStartInit == instance.state = "uninit"

generate_web_token(user, salt, config, clock) ==
    _generate_token(user, config.token_duration_sec, salt, config.token_key, clock)

validate_web_token(origin_token, salt, config, clock) ==
    LET r == _validate_token_sign_and_exp(origin_token, salt, config.token_key, clock)
    IN  IF ~r.ok THEN r ELSE Ok("unit")

CallResult(call, config, clock) ==
    IF call.op = "generate"
    THEN generate_web_token(call.user, call.salt, config, clock)
    ELSE validate_web_token(call.origin_token, call.salt, config, clock)

ConcInit ==
    /\ now = MaxTime - 1
    /\ instance = Uninit
    /\ initCount = 0
    /\ waiters = {}
    /\ t_pc = [t \in Threads |-> "idle"]
    /\ t_call = [t \in Threads |-> NoCall]
    /\ t_cfg = [t \in Threads |-> Uninit.value]
    /\ t_clk = [t \in Threads |-> 0]
    /\ t_res = [t \in Threads |-> NoResult]
    /\ issued = NoToken

CallGenerate(t) ==
    /\ t_pc[t] = "idle"
    /\ \E salt \in Salts :
        t_call' = [t_call EXCEPT ![t] =
            [op |-> "generate", user |-> <<65>>, salt |-> salt, origin_token |-> NoToken]]
    /\ t_pc' = [t_pc EXCEPT ![t] = "config"]
    /\ UNCHANGED <<instance, initCount, waiters, t_cfg, t_clk, t_res, issued>>
    /\ UNCHANGED <<clockVars, codecVars, protoVars>>

CallValidate(t) ==
    /\ t_pc[t] = "idle"
    /\ issued # NoToken
    /\ \E salt \in Salts :
        t_call' = [t_call EXCEPT ![t] =
            [op |-> "validate", user |-> <<>>, salt |-> salt, origin_token |-> issued]]
    /\ t_pc' = [t_pc EXCEPT ![t] = "config"]
    /\ UNCHANGED <<instance, initCount, waiters, t_cfg, t_clk, t_res, issued>>
    /\ UNCHANGED <<clockVars, codecVars, protoVars>>

\* get_or_init finds the value stored
ConfigGet(t) ==
    /\ t_pc[t] = "config"
    /\ instance.state = "complete"
    /\ t_cfg' = [t_cfg EXCEPT ![t] = instance.value]
    /\ t_pc' = [t_pc EXCEPT ![t] = "body"]
    /\ UNCHANGED <<instance, initCount, waiters, t_call, t_clk, t_res, issued>>
    /\ UNCHANGED <<clockVars, codecVars, protoVars>>

\* get_or_init finds the cell empty and starts the closure; the other
\* callers inside config() wait for it
ConfigBegin(t) ==
    /\ t_pc[t] = "config"
    /\ CanStartInit
    /\ instance' = [instance EXCEPT !.state = "running"]
    /\ waiters' = waiters \cup { u \in Threads \ {t} : t_pc[u] = "config" }
    /\ t_pc' = [t_pc EXCEPT ![t] = "init"]
    /\ UNCHANGED <<initCount, t_call, t_cfg, t_clk, t_res, issued>>
    /\ UNCHANGED <<clockVars, codecVars, protoVars>>

\* load_from_env succeeded: the value is stored and a reference to it returned
ConfigStore(t) ==
    /\ t_pc[t] = "init"
    /\ \E c \in EnvConfigs :
        /\ instance' = [state |-> "complete", value |-> c]
        /\ t_cfg' = [t_cfg EXCEPT ![t] = c]
    /\ initCount' = initCount + 1
    /\ t_pc' = [t_pc EXCEPT ![t] = "body"]
    /\ UNCHANGED <<waiters, t_call, t_clk, t_res, issued>>
    /\ UNCHANGED <<clockVars, codecVars, protoVars>>

\* load_from_env failed: the closure panics, the cell stays empty
ConfigPanic(t) ==
    /\ t_pc[t] = "init"
    /\ instance' = [instance EXCEPT !.state = "uninit"]
    /\ t_pc' = [t_pc EXCEPT ![t] = "panicked"]
    /\ UNCHANGED <<initCount, waiters, t_call, t_cfg, t_clk, t_res, issued>>
    /\ UNCHANGED <<clockVars, codecVars, protoVars>>

\* the body of generate_web_token / validate_web_token with the &Config held
Body(t) ==
    /\ t_pc[t] = "body"
    /\ LET r == CallResult(t_call[t], t_cfg[t], now)
       IN  /\ t_res' = [t_res EXCEPT ![t] = r]
           /\ issued' = IF t_call[t].op = "generate" /\ r.ok THEN r.val ELSE issued
    /\ t_clk' = [t_clk EXCEPT ![t] = now]
    /\ t_pc' = [t_pc EXCEPT ![t] = "done"]
    /\ UNCHANGED <<instance, initCount, waiters, t_call, t_cfg>>
    /\ UNCHANGED <<clockVars, codecVars, protoVars>>

Return(t) ==
    /\ t_pc[t] = "done"
    /\ t_pc' = [t_pc EXCEPT ![t] = "idle"]
    /\ t_call' = [t_call EXCEPT ![t] = NoCall]
    /\ t_cfg' = [t_cfg EXCEPT ![t] = Uninit.value]
    /\ t_clk' = [t_clk EXCEPT ![t] = 0]
    /\ t_res' = [t_res EXCEPT ![t] = NoResult]
    /\ UNCHANGED <<instance, initCount, waiters, issued>>
    /\ UNCHANGED <<clockVars, codecVars, protoVars>>

----------------------------------------------------------------------------
(* Specifications *)

ConcIdle ==
    /\ instance = Uninit
    /\ initCount = 0
    /\ waiters = {}
    /\ t_pc = [t \in Threads |-> "idle"]
    /\ t_call = [t \in Threads |-> NoCall]
    /\ t_cfg = [t \in Threads |-> Uninit.value]
    /\ t_clk = [t \in Threads |-> 0]
    /\ t_res = [t \in Threads |-> NoResult]
    /\ issued = NoToken

Init == ProtoInit /\ CodecInit /\ ConcIdle

Next == Tick \/ Generate \/ Forge \/ Tamper \/ Validate \/ Drop

Spec == Init /\ [][Next]_vars

CodecSpecInit == CodecInit /\ ProtoInit /\ ConcIdle

CodecNext == Display \/ Receive \/ FromStr \/ CodecDrop

CodecSpec == CodecSpecInit /\ [][CodecNext]_vars

ConcSpecInit ==
    /\ ConcInit
    /\ CodecInit
    /\ token = NoToken /\ gen = NoGen /\ vin = NoVin /\ res = NoResult

ConcNext ==
    \/ Tick
    \/ \E t \in Threads : CallGenerate(t)
    \/ \E t \in Threads : CallValidate(t)
    \/ \E t \in Threads : ConfigGet(t)
    \/ \E t \in Threads : ConfigBegin(t)
    \/ \E t \in Threads : ConfigStore(t)
    \/ \E t \in Threads : ConfigPanic(t)
    \/ \E t \in Threads : Body(t)
    \/ \E t \in Threads : Return(t)

ConcSpec == ConcSpecInit /\ [][ConcNext]_vars


----------------------------------------------------------------------------
(* Properties of the codec, checked under CodecSpec *)

Parsed == c_pc \in {"parsed", "reparsed"}
Pieces == Split(c_text)

\* a Token as generate builds it: the signature is base64url text
WellFormedToken(t) == \A i \in 1..Len(t.sign_b64u) : t.sign_b64u[i] \in 0..63

\* C5: for every well-formed Token, parsing its serialized text succeeds
\* and returns a Token equal to the original field for field.
RoundTrip ==
    (c_pc = "reparsed" /\ WellFormedToken(c_tok)) => c_res = Ok(c_tok)

RoundTripWitness ==
    /\ c_pc = "reparsed"
    /\ WellFormedToken(c_tok)
    /\ Len(c_tok.ident) = MaxStrLen
    /\ c_tok.exp # <<>>
    /\ c_tok.sign_b64u # <<>>
    /\ c_res = Ok(c_tok)

\* C6: a text that splits on '.' into a number of pieces other than three
\* yields TokenInvalidFormat whatever the pieces contain: no decode error
\* and no Token.
FormatRejection ==
    (Parsed /\ Len(Pieces) # 3) => c_res = Err("TokenInvalidFormat")

FormatRejectionWitness ==
    /\ c_pc = "parsed"
    /\ Len(Pieces) = 4
    /\ ~b64u_decode(Pieces[1]).ok
    /\ b64u_decode(Pieces[2]).ok
    /\ c_res = Err("TokenInvalidFormat")

\* C7 as stated: a text is parsed into a Token only if it splits into
\* exactly three non-empty pieces.
ParsedOnlyFromNonEmptyPieces ==
    (Parsed /\ c_res.ok) =>
        (Len(Pieces) = 3 /\ \A i \in 1..3 : Pieces[i] # <<>>)

\* C7 amended: a text is parsed into a Token only if it splits into exactly
\* three pieces, and the pieces may be empty: three pieces whose first two
\* decode give a Token whose signature is the third piece verbatim, the
\* empty one included.
ParsedOnlyFromThreePieces ==
    Parsed =>
        /\ c_res.ok => Len(Pieces) = 3
        /\ (/\ Len(Pieces) = 3
            /\ b64u_decode(Pieces[1]).ok
            /\ b64u_decode(Pieces[2]).ok)
           => (c_res.ok /\ c_res.val.sign_b64u = Pieces[3])

ParsedEmptyPieceWitness ==
    /\ Parsed
    /\ Len(Pieces) = 3
    /\ Pieces[1] # <<>>
    /\ Pieces[2] # <<>>
    /\ Pieces[3] = <<>>
    /\ c_res.ok
    /\ c_res.val.sign_b64u = <<>>

----------------------------------------------------------------------------
(* Properties of generate / validate, checked under Spec *)

\* the signature validate recomputes for the current Token
NewSign == _token_sign_into_b64u(token.ident, token.exp, vin.salt, vin.key)
OriginExp == parse_utc(token.exp)
SignMatches == NewSign.ok /\ NewSign.val = token.sign_b64u
SignDiffers == NewSign.ok /\ NewSign.val # token.sign_b64u

\* validate ran on a Token generate returned, with the salt and key of generate
SameSaltAndKey ==
    /\ gen.made /\ gen.ok /\ vin.done
    /\ vin.salt = gen.salt /\ vin.key = gen.key

\* C1: a Token whose signature differs from the recomputed one is rejected
\* with TokenSignatureNotMatching whatever its exp holds (in the past, not
\* a timestamp): the signature is decided before the expiration.
SignatureBeforeExpiration ==
    (vin.done /\ SignDiffers) => res = Err("TokenSignatureNotMatching")

SignatureBeforeExpirationWitness ==
    /\ vin.done /\ SignDiffers
    /\ OriginExp.ok /\ OriginExp.val + MaxDuration < vin.t1
    /\ res = Err("TokenSignatureNotMatching")

\* C2: a Token generated at t0 with duration d > 0 and validated with the
\* same salt and key at t1, t0 <= t1 <= t0 + d, is accepted.
ValidTokenAccepted ==
    (SameSaltAndKey /\ gen.d > 0 /\ gen.t0 <= vin.t1 /\ vin.t1 <= gen.t0 + gen.d)
        => res = Ok("unit")

ValidTokenAcceptedWitness ==
    /\ SameSaltAndKey /\ gen.d > 0
    /\ vin.t1 = gen.t0 + gen.d
    /\ res = Ok("unit")

\* C3: a Token with a matching signature and a parseable expiration that is
\* strictly earlier than validate's clock reading is rejected with
\* TokenExpired; so is a Token generated at t0 with duration d and validated
\* with the same salt and key at t1 > t0 + d.
ExpirationRejection ==
    /\ (vin.done /\ SignMatches /\ OriginExp.ok /\ OriginExp.val < vin.t1)
        => res = Err("TokenExpired")
    /\ (SameSaltAndKey /\ vin.t1 > gen.t0 + gen.d)
        => res = Err("TokenExpired")

ExpirationRejectionWitness ==
    /\ SameSaltAndKey /\ gen.d > 0
    /\ vin.t1 = gen.t0 + gen.d + 1
    /\ res = Err("TokenExpired")

\* C4: a Token generated with one salt and validated before it expires with
\* the same key and another salt is rejected with TokenSignatureNotMatching;
\* so is one validated with the same salt and another key.
SaltBinding ==
    (/\ gen.made /\ gen.ok /\ vin.done
     /\ vin.t1 <= gen.t0 + gen.d
     /\ \/ (vin.salt # gen.salt /\ vin.key = gen.key)
        \/ (vin.salt = gen.salt /\ vin.key # gen.key))
        => res = Err("TokenSignatureNotMatching")

SaltBindingWitness ==
    /\ gen.made /\ gen.ok /\ vin.done
    /\ gen.t0 <= vin.t1 /\ vin.t1 <= gen.t0 + gen.d
    /\ vin.salt # gen.salt /\ vin.key = gen.key
    /\ res = Err("TokenSignatureNotMatching")

\* C8 as stated: for every duration d <= 0 generate returns a Token, and
\* validating it with the same salt and key at any clock reading not
\* earlier than the one generate used yields TokenExpired.
NonPositiveDurationAlwaysExpired ==
    /\ (gen.made /\ gen.d <= 0) => gen.ok
    /\ (SameSaltAndKey /\ gen.d <= 0 /\ vin.t1 >= gen.t0)
        => res = Err("TokenExpired")

\* C8 amended: for every duration d <= 0 generate returns a Token whose
\* expiration is its clock reading plus d; validating it with the same salt
\* and key yields TokenExpired at every clock reading strictly later than
\* that expiration, and Ok at the clock reading equal to it (d = 0, the
\* reading generate used).
NonPositiveDurationExpiredAfterExp ==
    /\ (gen.made /\ gen.d <= 0) =>
        (gen.ok /\ token.exp = format_time(gen.t0 + gen.d))
    /\ (SameSaltAndKey /\ gen.d <= 0 /\ vin.t1 > gen.t0 + gen.d)
        => res = Err("TokenExpired")
    /\ (SameSaltAndKey /\ gen.d <= 0 /\ vin.t1 = gen.t0 + gen.d)
        => res = Ok("unit")

NonPositiveDurationWitness ==
    /\ SameSaltAndKey /\ gen.d < 0
    /\ vin.t1 = gen.t0
    /\ res = Err("TokenExpired")

\* C9: a Token whose signature matches and whose exp is not a timestamp is
\* rejected with TokenExpNotIso, not TokenExpired; validate accepts no Token
\* whose expiration cannot be parsed.
UnparseableExpRejected ==
    /\ (vin.done /\ SignMatches /\ ~OriginExp.ok) => res = Err("TokenExpNotIso")
    /\ (vin.done /\ res.ok) => OriginExp.ok

UnparseableExpWitness ==
    /\ vin.done /\ SignMatches
    /\ token.exp = <<56, 48, 90>>
    /\ res = Err("TokenExpNotIso")

----------------------------------------------------------------------------
(* Properties of the concurrent callers, checked under ConcSpec *)

\* C10: under any interleaving of generate_web_token and validate_web_token
\* calls, several of them inside the first config() at once included, the
\* configuration is stored exactly once and never changes, every call holds
\* the same key, and each call's result is the result of that call run
\* alone with the same inputs and clock reading.
ConfigStoredOnce ==
    /\ initCount <= 1
    /\ (instance.state = "complete") <=> (initCount = 1)
    /\ \A t \in Threads :
        /\ t_pc[t] \in {"body", "done"} =>
            (instance.state = "complete" /\ t_cfg[t] = instance.value)
        /\ t_pc[t] = "done" =>
            t_res[t] = CallResult(t_call[t], instance.value, t_clk[t])

ConfigStoredOnceWitness ==
    \E t \in waiters, u \in Threads \ waiters :
        /\ t_pc[t] = "done" /\ t_pc[u] = "done"
        /\ t_call[t].op = "validate" /\ t_res[t].ok
        /\ t_call[u].op = "generate" /\ t_res[u].ok
        /\ initCount = 1

============================================================================
